---- MODULE Spec2Model ----
(***************************************************************************)
(* A model of openedx/core/djangoapps/xblock/runtime/runtime.py:           *)
(* one XBlockRuntime bound to one user, created by an XBlockRuntimeSystem  *)
(* with one student_data_mode, and the three entry points blocks and the   *)
(* platform call on it: service(), publish() and render().                 *)
(*                                                                         *)
(* Python values are modelled as records carrying a "kind" field, so that  *)
(* None, services, field data stores and fragments can be compared.        *)
(* Python strings that the code inspects (resource data, the site root     *)
(* URL) are sequences of one-character strings.                            *)
(***************************************************************************)
EXTENDS Integers, Sequences, FiniteSets, TLC

VARIABLES
    user,                       \* XBlockRuntime.user: "None", "AnonymousUser" or "User"
    user_id,                    \* XBlockRuntime.user_id
    student_data_mode,          \* XBlockRuntimeSystem.student_data_mode
    block_field_datas,          \* XBlockRuntime.block_field_datas: scope_ids -> FieldData | None
    django_field_data_caches,   \* XBlockRuntime.django_field_data_caches: context key -> FieldDataCache
    next_object,                \* identity of the next object a field-data initialization constructs
    init_calls,                 \* history: invocations of _init_field_data_for_block per scope_ids
    first_stored,               \* history: the first FieldData stored in block_field_datas per scope_ids
    score_published,            \* history: SCORE_PUBLISHED.send was called
    completion_submitted,       \* history: BlockCompletion.objects.submit_completion was called
    result                      \* the last call on the runtime and what it did

vars == <<user, user_id, student_data_mode, block_field_datas, django_field_data_caches,
          next_object, init_calls, first_stored, score_published, completion_submitted, result>>

runtime_state == <<user, user_id, student_data_mode>>
field_data_state == <<block_field_datas, django_field_data_caches, next_object, init_calls, first_stored>>
publish_state == <<score_published, completion_submitted>>

(***************************************************************************)
(* Bounds of the model.                                                    *)
(***************************************************************************)
NumBlocks == 4
MaxInitCalls == 2
MaxResources == 2

(***************************************************************************)
(* The inputs: blocks (identified by their scope_ids), their learning      *)
(* context keys, the services they declare, users, modes, event types,     *)
(* view names and fragments.                                               *)
(***************************************************************************)
Blocks == 1..NumBlocks

ContextKeyOf(b) == IF b % 2 = 1 THEN "lib:A" ELSE "lib:B"

\* The service names tried: field-data, services the runtime builds itself,
\* the one the system provides, and one ("teams") only the base class could know.
ServiceNames ==
    {"field-data", "completion", "user", "mako", "i18n", "replace_urls",
     "error_tracker", "teams"}

DeclaredServices(b) ==
    CASE b % 4 = 1 -> ServiceNames
      [] b % 4 = 2 -> {"field-data", "user", "completion", "teams"}
      [] b % 4 = 3 -> {"field-data", "i18n"}
      [] OTHER     -> {"i18n", "mako"}

service_declaration(b, service_name) ==
    IF service_name \in DeclaredServices(b) THEN "need" ELSE "None"

Users == {"None", "AnonymousUser", "User"}

is_anonymous(u) == u = "AnonymousUser"

StudentDataModes == {"Ephemeral", "Persisted"}

EventTypes == {"grade", "completion", "edx.done.toggled"}

ViewNames == {"public_view", "student_view", "author_view"}

None == [kind |-> "None"]

Range(s) == {s[i] : i \in DOMAIN s}

Count(s, x) == Cardinality({i \in DOMAIN s : s[i] = x})


(***************************************************************************)
(* What a call on the runtime did: its arguments, whether it returned or   *)
(* raised (and which function raised), the value returned, the calls it    *)
(* made in order, and the data it worked on: for render the fragment the   *)
(* block's view produced, for publish the tracking log context.            *)
(***************************************************************************)
Call(op, b, arg, outcome, exception, thrown_by, value, calls, data) ==
    [op |-> op, block |-> b, arg |-> arg, outcome |-> outcome, exception |-> exception,
     thrown_by |-> thrown_by, value |-> value, calls |-> calls, data |-> data]

Returned(op, b, arg, value, calls, data) ==
    Call(op, b, arg, "return", "", "", value, calls, data)

Raised(op, b, arg, exception, thrown_by, calls) ==
    Call(op, b, arg, "raise", exception, thrown_by, None, calls, None)

(***************************************************************************)
(* XBlockRuntime.__init__ and XBlockRuntimeSystem.__init__                 *)
(***************************************************************************)
InitialUserId(u) ==
    IF u = "None" THEN "None"
    ELSE IF is_anonymous(u) THEN "anon5f3a"
    ELSE "42"

Init ==
    /\ user \in Users
    /\ user_id = InitialUserId(user)
    /\ student_data_mode \in StudentDataModes
    /\ block_field_datas = <<>>
    /\ django_field_data_caches = <<>>
    /\ next_object = 1
    /\ init_calls = [b \in Blocks |-> 0]
    /\ first_stored = <<>>
    /\ score_published = FALSE
    /\ completion_submitted = FALSE
    /\ result = Returned("__init__", 0, "", None, <<>>, None)

(***************************************************************************)
(* XBlockRuntime._init_field_data_for_block                                *)
(***************************************************************************)
\* Where an exception may interrupt the initialization: not at all, before the
\* FieldDataCache is stored or extended (the assertion, the FieldDataCache
\* constructor, add_blocks_to_cache), or after it (the key-value store and the
\* field data objects built on top).
Faults == {"none", "early", "late"}

StudentStoreKind_anonymous_by_mode(u, mode) ==
    IF u = "None" THEN "None"
    ELSE IF mode = "Ephemeral" THEN "Ephemeral"
    ELSE "Django"

StudentStoreKind(u, mode) ==
    IF u = "None" THEN "None"
    ELSE IF is_anonymous(u) THEN "Ephemeral"
    ELSE IF mode = "Ephemeral" THEN "Ephemeral"
    ELSE "Django"

CachesAfterInit_always_new(caches, context_key, b, id) ==
    [k \in DOMAIN caches \cup {context_key} |->
        IF k = context_key THEN [id |-> id, blocks |-> {b}] ELSE caches[k]]

CachesAfterInit(caches, context_key, b, id) ==
    IF context_key \notin DOMAIN caches
    THEN [k \in DOMAIN caches \cup {context_key} |->
            IF k = context_key THEN [id |-> id, blocks |-> {b}] ELSE caches[k]]
    ELSE [caches EXCEPT ![context_key].blocks = @ \cup {b}]

StudentDataStore(kind, id, caches, context_key) ==
    CASE kind = "None" -> None
      [] kind = "Ephemeral" ->
            [kind |-> "KvsFieldData",
             kvs  |-> [kind |-> "EphemeralKeyValueStore", id |-> id]]
      [] OTHER ->
            [kind |-> "KvsFieldData",
             kvs  |-> [kind |-> "DjangoKeyValueStore", id |-> id,
                       field_data_cache |-> caches[context_key].id]]

SplitFieldData(id, student_data_store) ==
    [kind |-> "SplitFieldData",
     id   |-> id,
     scopes |-> [content            |-> "authored_data_store",
                 settings           |-> "authored_data_store",
                 parent             |-> "authored_data_store",
                 children           |-> "children_data_store",
                 user_state_summary |-> student_data_store,
                 user_state         |-> student_data_store,
                 user_info          |-> student_data_store,
                 preferences        |-> student_data_store]]

\* The caches after the call, whatever its outcome.
InitCaches(b, fault) ==
    IF StudentStoreKind(user, student_data_mode) = "Django" /\ fault # "early"
    THEN CachesAfterInit(django_field_data_caches, ContextKeyOf(b), b, next_object)
    ELSE django_field_data_caches

\* The FieldData the call returns when nothing interrupts it.
InitFieldData(b) ==
    SplitFieldData(
        next_object,
        StudentDataStore(StudentStoreKind(user, student_data_mode), next_object,
                         InitCaches(b, "none"), ContextKeyOf(b)))

(***************************************************************************)
(* XBlockRuntime.service                                                   *)
(***************************************************************************)
DeclarationIsNone_after_field_data(b, service_name) ==
    service_name # "field-data" /\ service_declaration(b, service_name) = "None"

DeclarationIsNone(b, service_name) ==
    service_declaration(b, service_name) = "None"

NeedsInit_always(field_datas, b) == TRUE

NeedsInit(field_datas, b) == b \notin DOMAIN field_datas

StoreFieldData(field_datas, b, field_data) ==
    [x \in DOMAIN field_datas \cup {b} |-> IF x = b THEN field_data ELSE field_datas[x]]

RecordInitFailure_forgotten(field_datas, b) == field_datas

RecordInitFailure(field_datas, b) == StoreFieldData(field_datas, b, None)

ServiceNotDeclared(b, service_name) ==
    /\ DeclarationIsNone(b, service_name)
    /\ result' = Raised("service", b, service_name, "NoSuchServiceError", "service", <<>>)
    /\ UNCHANGED <<runtime_state, field_data_state, publish_state>>

ServiceFieldDataInit(b) ==
    /\ ~DeclarationIsNone(b, "field-data")
    /\ NeedsInit(block_field_datas, b)
    /\ init_calls[b] < MaxInitCalls
    /\ \E fault \in Faults :
        /\ django_field_data_caches' = InitCaches(b, fault)
        /\ next_object' = next_object + 1
        /\ init_calls' = [init_calls EXCEPT ![b] = @ + 1]
        /\ IF fault = "none"
           THEN /\ block_field_datas' = StoreFieldData(block_field_datas, b, InitFieldData(b))
                /\ first_stored' =
                      IF b \in DOMAIN first_stored THEN first_stored
                      ELSE StoreFieldData(first_stored, b, InitFieldData(b))
                /\ result' = Returned("service", b, "field-data", block_field_datas'[b],
                                      <<"_init_field_data_for_block">>, None)
           ELSE /\ block_field_datas' = RecordInitFailure(block_field_datas, b)
                /\ first_stored' = first_stored
                /\ result' = Raised("service", b, "field-data", "Exception",
                                    "_init_field_data_for_block",
                                    <<"_init_field_data_for_block">>)
    /\ UNCHANGED <<runtime_state, publish_state>>

ServiceFieldDataStored(b) ==
    /\ ~DeclarationIsNone(b, "field-data")
    /\ ~NeedsInit(block_field_datas, b)
    /\ result' = Returned("service", b, "field-data", block_field_datas[b], <<>>, None)
    /\ UNCHANGED <<runtime_state, field_data_state, publish_state>>

\* The services the runtime constructs itself, a new object on every call.
BuiltinServices ==
    {"completion", "mako", "i18n", "sandbox", "cache", "replace_urls", "rebind_user", "publish"}

BuiltinService(b, service_name) ==
    CASE service_name = "completion" ->
            [kind |-> "CompletionService", user |-> user, context_key |-> ContextKeyOf(b)]
      [] service_name = "mako" ->
            [kind |-> "MakoService",
             namespace_prefix |-> IF student_data_mode = "Ephemeral" THEN "lms." ELSE ""]
      [] service_name = "i18n" -> [kind |-> "XBlockI18nService", block |-> b]
      [] service_name = "sandbox" ->
            [kind |-> "SandboxService", course_id |-> ContextKeyOf(b)]
      [] service_name = "cache" -> [kind |-> "CacheService"]
      [] service_name = "replace_urls" -> [kind |-> "ReplaceURLService", xblock |-> b]
      [] service_name = "rebind_user" ->
            [kind |-> "RebindUserService", user |-> user, context_key |-> ContextKeyOf(b)]
      [] OTHER ->
            [kind |-> "EventPublishingService", user |-> user, context_key |-> ContextKeyOf(b)]

ServiceBuiltin(b, service_name) ==
    /\ ~DeclarationIsNone(b, service_name)
    /\ service_name \in BuiltinServices
    /\ result' = Returned("service", b, service_name, BuiltinService(b, service_name), <<>>, None)
    /\ UNCHANGED <<runtime_state, field_data_state, publish_state>>

ServiceUser(b) ==
    /\ ~DeclarationIsNone(b, "user")
    /\ result' =
          IF user = "None"
          THEN Raised("service", b, "user", "RuntimeError", "service", <<>>)
          ELSE Returned("service", b, "user",
                        [kind |-> "DjangoXBlockUserService", user |-> user,
                         deprecated_anonymous_user_id |->
                            IF is_anonymous(user) THEN user_id ELSE "anonymous_id_for_user"],
                        <<>>, None)
    /\ UNCHANGED <<runtime_state, field_data_state, publish_state>>

\* XBlockRuntimeSystem.get_service
get_service(b, service_name) ==
    IF service_name = "error_tracker" THEN [kind |-> "error_tracker"] ELSE None

ServiceFromSystem(b, service_name) ==
    /\ ~DeclarationIsNone(b, service_name)
    /\ service_name \notin BuiltinServices \cup {"field-data", "user"}
    /\ get_service(b, service_name) # None
    /\ result' = Returned("service", b, service_name, get_service(b, service_name),
                          <<"get_service">>, None)
    /\ UNCHANGED <<runtime_state, field_data_state, publish_state>>

\* The base Runtime.service: it finds the service among those given to its
\* constructor (none here) or raises; both outcomes are left open.
ServiceFromBase(b, service_name) ==
    /\ ~DeclarationIsNone(b, service_name)
    /\ service_name \notin BuiltinServices \cup {"field-data", "user"}
    /\ get_service(b, service_name) = None
    /\ \/ result' = Returned("service", b, service_name, None,
                             <<"get_service", "Runtime.service">>, None)
       \/ result' = Raised("service", b, service_name, "NoSuchServiceError",
                           "Runtime.service", <<"get_service", "Runtime.service">>)
    /\ UNCHANGED <<runtime_state, field_data_state, publish_state>>

service(b, service_name) ==
    \/ ServiceNotDeclared(b, service_name)
    \/ service_name = "field-data" /\ ServiceFieldDataInit(b)
    \/ service_name = "field-data" /\ ServiceFieldDataStored(b)
    \/ service_name = "user" /\ ServiceUser(b)
    \/ ServiceBuiltin(b, service_name)
    \/ ServiceFromSystem(b, service_name)
    \/ ServiceFromBase(b, service_name)

ServiceNext == \E b \in Blocks : \E service_name \in ServiceNames : service(b, service_name)

SpecService == Init /\ [][ServiceNext]_vars


(***************************************************************************)
(* XBlockRuntime.publish                                                   *)
(***************************************************************************)
get_event_handler_ignoring_user_id(uid, event_type) ==
    IF event_type = "grade" THEN "handle_grade_event"
    ELSE IF event_type = "completion" THEN "handle_completion_event"
    ELSE "None"

get_event_handler(uid, event_type) ==
    IF uid = "None" THEN "None"
    ELSE IF event_type = "grade" THEN "handle_grade_event"
    ELSE IF event_type = "completion" THEN "handle_completion_event"
    ELSE "None"

\* handle_grade_event sends the signal only for a registered user.
GradeSignalSent(u) == u # "None" /\ ~is_anonymous(u)

handle_grade_event(b) ==
    /\ score_published' = (score_published \/ GradeSignalSent(user))
    /\ completion_submitted' = completion_submitted
    /\ result' = Returned("publish", b, "grade", None,
                          IF GradeSignalSent(user)
                          THEN <<"handle_grade_event", "SCORE_PUBLISHED.send">>
                          ELSE <<"handle_grade_event">>,
                          None)

\* handle_completion_event reads the completion-tracking switch and nothing else.
handle_completion_event(b, switch_enabled) ==
    /\ completion_submitted' = (completion_submitted \/ switch_enabled)
    /\ score_published' = score_published
    /\ result' = Returned("publish", b, "completion", None,
                          IF switch_enabled
                          THEN <<"handle_completion_event", "BlockCompletion.objects.submit_completion">>
                          ELSE <<"handle_completion_event">>,
                          None)

log_event_to_tracking_log(b, event_type) ==
    /\ result' = Returned("publish", b, event_type, None,
                          <<"log_event_to_tracking_log", "track_function">>,
                          [kind |-> "log_context",
                           context_key |-> ContextKeyOf(b),
                           user_id |-> IF user_id # "None" THEN user_id ELSE "",
                           asides |-> {}])
    /\ UNCHANGED publish_state

PublishGrade(b, event_type) ==
    /\ get_event_handler(user_id, event_type) = "handle_grade_event"
    /\ handle_grade_event(b)
    /\ UNCHANGED <<runtime_state, field_data_state>>

PublishCompletion(b, event_type) ==
    /\ get_event_handler(user_id, event_type) = "handle_completion_event"
    /\ \E switch_enabled \in BOOLEAN : handle_completion_event(b, switch_enabled)
    /\ UNCHANGED <<runtime_state, field_data_state>>

PublishToTrackingLog(b, event_type) ==
    /\ get_event_handler(user_id, event_type) = "None"
    /\ log_event_to_tracking_log(b, event_type)
    /\ UNCHANGED <<runtime_state, field_data_state>>

publish(b, event_type) ==
    \/ PublishGrade(b, event_type)
    \/ PublishCompletion(b, event_type)
    \/ PublishToTrackingLog(b, event_type)

PublishNext == \E b \in Blocks : \E event_type \in EventTypes : publish(b, event_type)

SpecPublish == Init /\ [][PublishNext]_vars

(***************************************************************************)
(* XBlockRuntime.render                                                    *)
(***************************************************************************)
\* A FragmentResource is the tuple <<kind, data, mimetype, placement>>.
ResourcePool ==
    {<<"url",  <<"/", "a">>, "text/css", "head">>,
     <<"url",  <<"a">>,      "text/css", "head">>,
     <<"url",  <<>>,         "text/css", "head">>,
     <<"text", <<"/", "a">>, "text/css", "head">>}

ResourceLists == UNION {[1..n -> ResourcePool] : n \in 0..MaxResources}

\* get_xblock_app_config().get_site_root_url()
SiteRootUrl == <<"h", ":">>

startswith(data, char) == Len(data) > 0 /\ data[1] = char

ViewForbidden_anonymous_allowed(u, view_name) ==
    u = "None" /\ view_name # "public_view"

ViewForbidden(u, view_name) ==
    (u = "None" \/ is_anonymous(u)) /\ view_name # "public_view"

needs_fix(resources) ==
    \E i \in DOMAIN resources : resources[i][1] = "url" /\ startswith(resources[i][2], "/")

\* Fragment.to_dict and Fragment.from_dict, as far as resources go.
to_dict(fragment) ==
    [content   |-> fragment.content,
     resources |-> [i \in DOMAIN fragment.resources |->
                      [kind      |-> fragment.resources[i][1],
                       data      |-> fragment.resources[i][2],
                       mimetype  |-> fragment.resources[i][3],
                       placement |-> fragment.resources[i][4]]]]

from_dict(frag_data) ==
    [kind      |-> "Fragment",
     content   |-> frag_data.content,
     resources |-> [i \in DOMAIN frag_data.resources |->
                      <<frag_data.resources[i].kind, frag_data.resources[i].data,
                        frag_data.resources[i].mimetype, frag_data.resources[i].placement>>]]

FixRelativeUrls_first_only(frag_data) ==
    [frag_data EXCEPT !.resources =
        [i \in DOMAIN frag_data.resources |->
            IF /\ frag_data.resources[i].kind = "url"
               /\ startswith(frag_data.resources[i].data, "/")
               /\ \A j \in 1..(i - 1) :
                    ~(/\ frag_data.resources[j].kind = "url"
                      /\ startswith(frag_data.resources[j].data, "/"))
            THEN [frag_data.resources[i] EXCEPT !.data = SiteRootUrl \o @]
            ELSE frag_data.resources[i]]]

\* The loop over frag_data['resources'].
FixRelativeUrls(frag_data) ==
    [frag_data EXCEPT !.resources =
        [i \in DOMAIN frag_data.resources |->
            IF /\ frag_data.resources[i].kind = "url"
               /\ startswith(frag_data.resources[i].data, "/")
            THEN [frag_data.resources[i] EXCEPT !.data = SiteRootUrl \o @]
            ELSE frag_data.resources[i]]]

\* openedx.core.lib.xblock_utils.wrap_fragment: a new fragment holding the new
\* content and the resources of the given one.
wrap_fragment(fragment, new_content) ==
    [kind |-> "Fragment", content |-> new_content, resources |-> fragment.resources]

\* ReplaceURLService.replace_urls
replace_urls(content) == <<"replace_urls", content>>

RenderDenied(b, view_name) ==
    /\ ViewForbidden(user, view_name)
    /\ result' = Raised("render", b, view_name, "PermissionDenied", "render", <<>>)
    /\ UNCHANGED <<runtime_state, field_data_state, publish_state>>

RenderViewRaises(b, view_name) ==
    /\ ~ViewForbidden(user, view_name)
    /\ result' = Raised("render", b, view_name, "Exception", "Runtime.render",
                        <<"Runtime.render">>)
    /\ UNCHANGED <<runtime_state, field_data_state, publish_state>>

RenderFragment(b, view_name) ==
    /\ ~ViewForbidden(user, view_name)
    /\ \E resources \in ResourceLists :
        LET fragment == [kind |-> "Fragment", content |-> "html", resources |-> resources]
            fixed == IF needs_fix(fragment.resources)
                     THEN from_dict(FixRelativeUrls(to_dict(fragment)))
                     ELSE fragment
        IN result' = Returned("render", b, view_name,
                              wrap_fragment(fixed, replace_urls(fixed.content)),
                              IF needs_fix(fragment.resources)
                              THEN <<"Runtime.render", "log.warning", "replace_urls", "wrap_fragment">>
                              ELSE <<"Runtime.render", "replace_urls", "wrap_fragment">>,
                              fragment)
    /\ UNCHANGED <<runtime_state, field_data_state, publish_state>>

render(b, view_name) ==
    \/ RenderDenied(b, view_name)
    \/ RenderViewRaises(b, view_name)
    \/ RenderFragment(b, view_name)

RenderNext == \E b \in Blocks : \E view_name \in ViewNames : render(b, view_name)

SpecRender == Init /\ [][RenderNext]_vars

(***************************************************************************)
(* The runtime as a whole: any call, in any order.  service, publish and   *)
(* render write disjoint parts of the state (block_field_datas and         *)
(* django_field_data_caches; the grade and completion effects; nothing),   *)
(* and none reads what another writes, so each family of calls is also     *)
(* given a specification of its own: SpecService, SpecPublish, SpecRender. *)
(***************************************************************************)
Next == ServiceNext \/ PublishNext \/ RenderNext

Spec == Init /\ [][Next]_vars

(***************************************************************************)
(* Properties                                                              *)
(***************************************************************************)
IsFieldDataCall(r) == r.op = "service" /\ r.arg = "field-data"

Initialized(b) ==
    b \in DOMAIN block_field_datas /\ block_field_datas[b].kind = "SplitFieldData"

RegisteredPersisted == user = "User" /\ student_data_mode = "Persisted"

\* C1: within one runtime _init_field_data_for_block is invoked at most once
\* per scope_ids, and every service(block, "field-data") call that returns
\* after a successful initialization returns the very FieldData object the
\* first call stored in block_field_datas.
C1_InitOncePerScopeIds ==
    \A b \in Blocks :
        /\ init_calls[b] <= 1
        /\ b \in DOMAIN first_stored =>
              /\ b \in DOMAIN block_field_datas
              /\ block_field_datas[b] = first_stored[b]
        /\ (IsFieldDataCall(result) /\ result.block = b /\ result.outcome = "return"
              /\ b \in DOMAIN first_stored)
           => result.value = first_stored[b]

\* A repeated field-data call answered from block_field_datas.
C1_Witness ==
    /\ IsFieldDataCall(result)
    /\ result.outcome = "return"
    /\ result.calls = <<>>
    /\ result.value.kind = "SplitFieldData"
    /\ init_calls[result.block] = 1

\* C2: content, settings and parent are backed by authored_data_store and
\* children by children_data_store; the four user scopes share one student
\* store, which is None when there is no user, a new EphemeralKeyValueStore
\* for an anonymous user (either mode) and for a registered user in Ephemeral
\* mode, and a DjangoKeyValueStore only for a registered user in Persisted mode.
C2_BackendSelection ==
    \A b \in DOMAIN block_field_datas :
        block_field_datas[b].kind = "SplitFieldData" =>
            LET scopes == block_field_datas[b].scopes
                store  == scopes.user_state
            IN /\ scopes.content = "authored_data_store"
               /\ scopes.settings = "authored_data_store"
               /\ scopes.parent = "authored_data_store"
               /\ scopes.children = "children_data_store"
               /\ scopes.user_state_summary = store
               /\ scopes.user_info = store
               /\ scopes.preferences = store
               /\ IF user = "None" THEN store = None
                  ELSE /\ store.kind = "KvsFieldData"
                       /\ store.kvs.kind =
                            IF user = "User" /\ student_data_mode = "Persisted"
                            THEN "DjangoKeyValueStore"
                            ELSE "EphemeralKeyValueStore"
                       /\ \A c \in DOMAIN block_field_datas \ {b} :
                            block_field_datas[c].kind = "SplitFieldData" =>
                                block_field_datas[c].scopes.user_state.kvs.id # store.kvs.id

\* An anonymous user in Persisted mode with two blocks initialized.
C2_Witness ==
    /\ user = "AnonymousUser"
    /\ student_data_mode = "Persisted"
    /\ \E b, c \in Blocks : b # c /\ Initialized(b) /\ Initialized(c)

\* C3: render raises PermissionDenied whenever the user is None or anonymous
\* and the view is not public_view, before the block's view is invoked and
\* without producing a fragment; for a registered user, or for public_view,
\* this check never raises PermissionDenied.
C3_RenderPermission ==
    result.op = "render" =>
        /\ ((user = "None" \/ user = "AnonymousUser") /\ result.arg # "public_view") =>
              /\ result.outcome = "raise"
              /\ result.exception = "PermissionDenied"
              /\ result.calls = <<>>
              /\ result.value = None
        /\ (user = "User" \/ result.arg = "public_view") =>
              ~(result.exception = "PermissionDenied" /\ result.thrown_by = "render")

\* An anonymous user is refused the student view.
C3_Witness ==
    /\ result.op = "render"
    /\ user = "AnonymousUser"
    /\ result.arg = "student_view"
    /\ result.exception = "PermissionDenied"

\* C4: for a runtime whose user is None or anonymous, no sequence of publish
\* calls ever sends the SCORE_PUBLISHED signal or calls
\* BlockCompletion.objects.submit_completion.
C4_NoGradeOrCompletionWithoutRegisteredUser ==
    (user = "None" \/ user = "AnonymousUser") =>
        ~score_published /\ ~completion_submitted

\* C5: publish takes exactly one path: with a user_id, 'grade' goes to
\* handle_grade_event and 'completion' to handle_completion_event, neither
\* writing to the tracking log; every other case calls
\* log_event_to_tracking_log exactly once and no special handler.
C5_PublishDispatch ==
    result.op = "publish" =>
        IF user_id # "None" /\ result.arg = "grade"
        THEN /\ Count(result.calls, "handle_grade_event") = 1
             /\ Count(result.calls, "handle_completion_event") = 0
             /\ Count(result.calls, "log_event_to_tracking_log") = 0
        ELSE IF user_id # "None" /\ result.arg = "completion"
        THEN /\ Count(result.calls, "handle_completion_event") = 1
             /\ Count(result.calls, "handle_grade_event") = 0
             /\ Count(result.calls, "log_event_to_tracking_log") = 0
        ELSE /\ Count(result.calls, "log_event_to_tracking_log") = 1
             /\ Count(result.calls, "handle_grade_event") = 0
             /\ Count(result.calls, "handle_completion_event") = 0

\* A registered user's completion event handled by handle_completion_event.
C5_Witness ==
    /\ result.op = "publish"
    /\ result.arg = "completion"
    /\ user = "User"
    /\ result.calls[1] = "handle_completion_event"

\* C6: service raises NoSuchServiceError for every service name the block has
\* not declared, 'field-data' included, and then leaves block_field_datas and
\* django_field_data_caches unchanged and constructs no service object.
C6_UndeclaredService ==
    [][(result'.op = "service" /\ result'.arg \notin DeclaredServices(result'.block)) =>
            /\ result'.outcome = "raise"
            /\ result'.exception = "NoSuchServiceError"
            /\ result'.value = None
            /\ result'.calls = <<>>
            /\ block_field_datas' = block_field_datas
            /\ django_field_data_caches' = django_field_data_caches
            /\ next_object' = next_object
            /\ init_calls' = init_calls]_vars

\* field-data refused to a block that does not declare it, in a runtime that
\* already holds field data for other blocks.
C6_Witness ==
    /\ IsFieldDataCall(result)
    /\ result.exception = "NoSuchServiceError"
    /\ result.thrown_by = "service"
    /\ result.block \notin DOMAIN block_field_datas
    /\ \E b \in Blocks : Initialized(b)

\* C7: when _init_field_data_for_block raises, the service call propagates
\* the exception and records None for the scope_ids; every later field-data
\* call for them returns None without raising and without initializing again.
C7_FailedInitNotRetried ==
    [][/\ (result'.op = "service" /\ result'.thrown_by = "_init_field_data_for_block") =>
            /\ result'.outcome = "raise"
            /\ result'.exception = "Exception"
            /\ result'.block \in DOMAIN block_field_datas'
            /\ block_field_datas'[result'.block] = None
       /\ \A b \in DOMAIN block_field_datas :
            (block_field_datas[b] = None /\ IsFieldDataCall(result') /\ result'.block = b) =>
                /\ result'.outcome = "return"
                /\ result'.value = None
                /\ "_init_field_data_for_block" \notin Range(result'.calls)
                /\ init_calls'[b] = init_calls[b]
                /\ block_field_datas' = block_field_datas]_vars

\* A later call answered with the None recorded by a failed initialization.
C7_Witness ==
    /\ IsFieldDataCall(result)
    /\ result.outcome = "return"
    /\ result.value = None
    /\ result.calls = <<>>
    /\ init_calls[result.block] = 1

\* C8: for a registered user in Persisted mode each context key has one
\* FieldDataCache, created by the first block of the context and reused by
\* the later ones, so every successfully initialized block is in the cache of
\* its own context key and in no other, and its store reads that cache; in
\* every other user/mode case django_field_data_caches stays empty.
C8_OneCachePerContext ==
    /\ ~RegisteredPersisted => DOMAIN django_field_data_caches = {}
    /\ RegisteredPersisted =>
        /\ \A k, l \in DOMAIN django_field_data_caches :
              k # l => django_field_data_caches[k].id # django_field_data_caches[l].id
        /\ \A b \in Blocks :
              Initialized(b) =>
                /\ ContextKeyOf(b) \in DOMAIN django_field_data_caches
                /\ b \in django_field_data_caches[ContextKeyOf(b)].blocks
                /\ block_field_datas[b].scopes.user_state.kvs.field_data_cache
                      = django_field_data_caches[ContextKeyOf(b)].id
                /\ \A k \in DOMAIN django_field_data_caches \ {ContextKeyOf(b)} :
                      b \notin django_field_data_caches[k].blocks

\* Two blocks of one context share its cache while another context has its own.
C8_Witness ==
    /\ RegisteredPersisted
    /\ DOMAIN django_field_data_caches = {"lib:A", "lib:B"}
    /\ \E b, c \in Blocks :
          /\ b # c
          /\ Initialized(b) /\ Initialized(c)
          /\ {b, c} \subseteq django_field_data_caches["lib:A"].blocks

IsRelativeUrl(resource) ==
    resource[1] = "url" /\ Len(resource[2]) > 0 /\ Head(resource[2]) = "/"

====
